---- MODULE Spec2Model ----
(***************************************************************************)
(* The debug plugin of src/src/index.ts as a state machine.               *)
(*                                                                         *)
(* The plugin runs on one JavaScript event loop.  A tool call or a request *)
(* handler runs without interruption until it awaits an operation that     *)
(* completes in a later turn of the loop (a socket connect, the tunnel     *)
(* service, a file read or write); an await of a promise that is already   *)
(* settled resumes in the same turn, before any such completion is         *)
(* delivered.  One action of this module is one such uninterrupted run.    *)
(*                                                                         *)
(* Strings are sequences of one-character strings, so that formatting a    *)
(* log line and splitting the file into lines are computed, not assumed.   *)
(***************************************************************************)
EXTENDS Integers, Sequences, FiniteSets, TLC

\* ---------------------------------------------------------------- bounds

\* Tool calls (debug_start, debug_stop) made in one run.
MaxCalls == 3
\* HTTP requests sent to the debug server in one run.
MaxReqs == 2
\* Ticks of the wall clock in one run.
MaxClock == 1
\* HTTP requests sent while the log tools are in use.
MaxToolReqs == 1
\* Calls of the log tools (debug_clear, debug_read) made in one run.
MaxToolCalls == 2

\* ------------------------------------------------------- optional values

\* null / undefined
Null == <<>>

Some(x) == <<x>>

\* a ?? b
Coalesce(a, b) == IF a # Null THEN a ELSE b

\* ----------------------------------------------------------------- state

VARIABLES
    server,            \* Null or Some(listener): the module-level server
    tunnel,            \* Null or Some(tunnel): the module-level tunnel
    debugModeActive,   \* BOOLEAN
    activeDebugUrl,    \* Null or Some(url)
    storedNgrokToken,  \* Null or Some(token), set by the auth loader
    envToken,          \* process.env.NGROK_AUTHTOKEN: Null or Some(token)
    running,           \* listeners created by Bun.serve and not stopped
    openTunnels,       \* forwarding sessions opened and not closed
    extBound,          \* ports bound by other processes
    calls,             \* the tool calls made so far, by call number
    reqs,              \* the HTTP requests made so far, by request number
    file,              \* the log file: Null (absent) or Some(content)
    clock              \* the wall clock, in ticks

vars == <<server, tunnel, debugModeActive, activeDebugUrl, storedNgrokToken,
          envToken, running, openTunnels, extBound, calls, reqs, file, clock>>

sessionVars == <<server, tunnel, debugModeActive, activeDebugUrl>>

\* Port numbers a listener can be bound to; 0 asks the OS for one of them.
Ports == {1, 2}

\* Values of args.port: absent, 0, or a port number.
PortArgs == {Null} \cup {Some(p) : p \in {0} \cup Ports}

Calls == 1..MaxCalls

Reqs == 1..MaxReqs

\* ------------------------------------------------------------------ URLs

\* config.endpoint
endpoint == "/debug"

\* `${baseUrl}${config.endpoint}`
buildDebugUrl(baseUrl) == baseUrl \o <<endpoint>>

\* `http://localhost:${port}`
localBase(port) == <<"http://localhost:", ToString(port)>>

\* The public URL the tunnel service assigns to forwarding session id.
tunnelBase(id) == <<"https://", ToString(id), ".ngrok.app">>

\* The URL that the "already running" branch of debug_start and debug_status
\* compute from the module-level server and tunnel.
currentUrl ==
    LET localUrl == buildDebugUrl(localBase(server[1].port))
        publicUrl == IF tunnel # Null THEN Some(buildDebugUrl(tunnel[1].url))
                     ELSE Null
    IN  Coalesce(publicUrl, Some(localUrl))[1]

\* debug_status: whether it reports active, and the URL it shows.
debug_status ==
    IF server = Null \/ ~debugModeActive
    THEN [active |-> FALSE, url |-> Null]
    ELSE [active |-> TRUE, url |-> Some(currentUrl)]

\* ------------------------------------------------------------ tool calls

\* A call's record: what it is (op), where it is suspended (pc), what it
\* holds (port, seen, tun, lsn, tail), how the tunnel service and the close
\* answered (fwd, closeErr), and what it returned (res, url, out).
NoCall ==
    [op |-> "none", pc |-> "none", port |-> Null, seen |-> FALSE,
     tun |-> Null, lsn |-> Null, fwd |-> "none", closeErr |-> FALSE,
     res |-> "none", url |-> Null, tail |-> Null, out |-> <<>>]

\* The number of the next tool call, or 0 when the run has made them all.
nextCall ==
    IF \E c \in Calls : calls[c].op = "none"
    THEN CHOOSE c \in Calls : calls[c].op = "none"
                               /\ \A d \in Calls : d < c => calls[d].op # "none"
    ELSE 0

\* Ports on which a connect succeeds and a bind fails.
BoundPorts == extBound \cup {l.port : l \in running}

\* isPortInUse(port): whether the connect to 127.0.0.1:port succeeds.
isPortInUse(port) == port \in BoundPorts

\* The ports Bun.serve({port}) can end up bound to: the port itself when it
\* is free, any free port for port 0, none (the call throws) otherwise.
servePorts(port) ==
    IF port = 0 THEN Ports \ BoundPorts
    ELSE IF port \in BoundPorts THEN {} ELSE {port}

\* debug_start after findAvailablePort has returned `port`: lines 280-289 up
\* to the await of the tunnel service.  rec is the call's record so far.
startAfterPort(c, rec, port) ==
    IF servePorts(port) = {}
    THEN \* createDebugServer throws: the call ends in an error
         /\ calls' = [calls EXCEPT ![c] = [rec EXCEPT !.pc = "done", !.res = "error"]]
         /\ UNCHANGED <<sessionVars, running>>
    ELSE \E actual \in servePorts(port) :
         LET lsn == [id |-> c, port |-> actual]
             token == Coalesce(envToken, storedNgrokToken)
             localUrl == buildDebugUrl(localBase(port))
         IN  /\ server' = Some(lsn)
             /\ running' = running \cup {lsn}
             /\ UNCHANGED tunnel
             /\ IF token = Null
                THEN \* startTunnel returns null without awaiting the service
                     /\ debugModeActive' = TRUE
                     /\ activeDebugUrl' = Some(localUrl)
                     /\ calls' = [calls EXCEPT ![c] =
                            [rec EXCEPT !.pc = "done", !.res = "started",
                                        !.port = Some(port), !.lsn = Some(lsn),
                                        !.url = Some(localUrl)]]
                ELSE /\ UNCHANGED <<debugModeActive, activeDebugUrl>>
                     /\ calls' = [calls EXCEPT ![c] =
                            [rec EXCEPT !.pc = "forward", !.port = Some(port),
                                        !.lsn = Some(lsn)]]

\* findAvailablePort never returning the preferred port.
findAvailablePortEphemeral(preferred, inUse) == Ports \ BoundPorts

\* findAvailablePort once the probe of the preferred port (if any) is known:
\* the preferred port when it is free, else an OS-assigned port obtained by
\* binding port 0 and releasing it.  The empty set: the bind of port 0 throws.
findAvailablePort(preferred, inUse) ==
    IF preferred # Null /\ ~inUse THEN {preferred[1]}
    ELSE Ports \ BoundPorts

\* debug_start is called with args.port = preferred.
StartCall(c, preferred) ==
    /\ c = nextCall
    /\ LET rec == [NoCall EXCEPT !.op = "start"]
       IN  IF server # Null
           THEN \* "Debug server already running!"
                /\ calls' = [calls EXCEPT ![c] =
                       [rec EXCEPT !.pc = "done", !.res = "already",
                                   !.url = Some(currentUrl)]]
                /\ UNCHANGED <<sessionVars, running>>
           ELSE IF preferred # Null
           THEN \* suspended in isPortInUse until the connect succeeds or fails
                /\ calls' = [calls EXCEPT ![c] =
                       [rec EXCEPT !.pc = "probe", !.port = preferred,
                                   !.seen = isPortInUse(preferred[1])]]
                /\ UNCHANGED <<sessionVars, running>>
           ELSE IF findAvailablePort(preferred, FALSE) = {}
           THEN /\ calls' = [calls EXCEPT ![c] =
                       [rec EXCEPT !.pc = "done", !.res = "error"]]
                /\ UNCHANGED <<sessionVars, running>>
           ELSE \E port \in findAvailablePort(preferred, FALSE) :
                    startAfterPort(c, rec, port)
    /\ UNCHANGED <<storedNgrokToken, envToken, openTunnels, extBound, reqs,
                   file, clock>>

\* The probe of the preferred port completes.  The connect was answered at
\* some moment between the call and now, by whoever held the port then; the
\* record keeps the answer.
StartProbeDone(c) ==
    /\ calls[c].op = "start" /\ calls[c].pc = "probe"
    /\ \E inUse \in {calls[c].seen, isPortInUse(calls[c].port[1])} :
         LET rec == [calls[c] EXCEPT !.port = Null, !.seen = inUse]
         IN  IF findAvailablePort(calls[c].port, inUse) = {}
             THEN /\ calls' = [calls EXCEPT ![c] =
                         [rec EXCEPT !.pc = "done", !.res = "error"]]
                  /\ UNCHANGED <<sessionVars, running>>
             ELSE \E port \in findAvailablePort(calls[c].port, inUse) :
                      startAfterPort(c, rec, port)
    /\ UNCHANGED <<storedNgrokToken, envToken, openTunnels, extBound, reqs,
                   file, clock>>

\* What the tunnel service can answer to ngrok.forward: a session with a URL,
\* a session whose url() is null, or an error (authentication rejected,
\* service unreachable).
ForwardOutcomes == {"url", "nourl", "throw"}

\* The await of startTunnel completes: lines 190-196, then 285-289.
StartForwardDone(c, outcome) ==
    /\ calls[c].op = "start" /\ calls[c].pc = "forward"
    /\ LET rec == [calls[c] EXCEPT !.pc = "done", !.fwd = outcome]
           port == calls[c].port[1]
           localUrl == buildDebugUrl(localBase(port))
       IN  CASE outcome = "throw" ->
                  \* nothing catches the rejection: debug_start ends in an error
                  /\ calls' = [calls EXCEPT ![c] = [rec EXCEPT !.res = "error"]]
                  /\ UNCHANGED <<sessionVars, openTunnels>>
             [] outcome = "nourl" ->
                  /\ openTunnels' = openTunnels \cup {c}
                  /\ debugModeActive' = TRUE
                  /\ activeDebugUrl' = Some(localUrl)
                  /\ calls' = [calls EXCEPT ![c] =
                         [rec EXCEPT !.res = "started", !.url = Some(localUrl)]]
                  /\ UNCHANGED <<server, tunnel>>
             [] outcome = "url" ->
                  LET publicUrl == buildDebugUrl(tunnelBase(c))
                  IN  /\ openTunnels' = openTunnels \cup {c}
                      /\ tunnel' = Some([id |-> c, url |-> tunnelBase(c)])
                      /\ debugModeActive' = TRUE
                      /\ activeDebugUrl' = Some(publicUrl)
                      /\ calls' = [calls EXCEPT ![c] =
                             [rec EXCEPT !.res = "started", !.tun = Some(c),
                                         !.url = Some(publicUrl)]]
                      /\ UNCHANGED server
    /\ UNCHANGED <<storedNgrokToken, envToken, running, extBound, reqs, file,
                   clock>>

\* stopTeardown with the log file truncated as the session ends.
stopTeardownTruncating(c, rec) ==
    /\ tunnel' = Null
    /\ IF server # Null
       THEN running' = running \ {server[1]} /\ server' = Null
       ELSE UNCHANGED <<running, server>>
    /\ debugModeActive' = FALSE
    /\ activeDebugUrl' = Null
    /\ calls' = [calls EXCEPT ![c] = [rec EXCEPT !.pc = "done", !.res = "stopped"]]
    /\ file' = Some(<<>>)

\* The rest of stopServer once the tunnel (if any) is dealt with, then lines
\* 331-332 of debug_stop: stop and forget the listener, clear the flags.  The
\* log file is not touched.
stopTeardown(c, rec) ==
    /\ tunnel' = Null
    /\ IF server # Null
       THEN running' = running \ {server[1]} /\ server' = Null
       ELSE UNCHANGED <<running, server>>
    /\ debugModeActive' = FALSE
    /\ activeDebugUrl' = Null
    /\ calls' = [calls EXCEPT ![c] = [rec EXCEPT !.pc = "done", !.res = "stopped"]]
    /\ UNCHANGED file

\* stopNotRunning with the guard left out: debug_stop always tears down.
stopNotRunningNever == FALSE

\* The guard of debug_stop: "Debug server is not running."
stopNotRunning == server = Null

\* debug_stop is called.  The record keeps what the call found: the listener
\* and the tunnel of the session, and whether debug_status reported active.
StopCall(c) ==
    /\ c = nextCall
    /\ LET rec == [NoCall EXCEPT !.op = "stop", !.lsn = server,
                                 !.seen = debug_status.active,
                                 !.tun = IF tunnel # Null THEN Some(tunnel[1].id)
                                         ELSE Null]
       IN  IF stopNotRunning
           THEN /\ calls' = [calls EXCEPT ![c] =
                       [rec EXCEPT !.pc = "done", !.res = "notrunning"]]
                /\ UNCHANGED <<sessionVars, running, file>>
           ELSE IF tunnel # Null
           THEN \* suspended in tunnel.close()
                /\ calls' = [calls EXCEPT ![c] = [rec EXCEPT !.pc = "closing"]]
                /\ UNCHANGED <<sessionVars, running, file>>
           ELSE stopTeardown(c, rec)
    /\ UNCHANGED <<storedNgrokToken, envToken, openTunnels, extBound, reqs,
                   clock>>

\* tunnel.close() settles: the session is closed, or the close raised an
\* error, which .catch(() => {}) swallows.
StopCloseDone(c, closed) ==
    /\ calls[c].op = "stop" /\ calls[c].pc = "closing"
    /\ openTunnels' = IF closed THEN openTunnels \ {calls[c].tun[1]}
                      ELSE openTunnels
    /\ stopTeardown(c, [calls[c] EXCEPT !.closeErr = ~closed])
    /\ UNCHANGED <<storedNgrokToken, envToken, extBound, reqs, clock>>

\* debug_status is called: it reads the module-level state and returns in
\* the same turn (lines 404-421).
StatusCall(c) ==
    /\ c = nextCall
    /\ calls' = [calls EXCEPT ![c] =
           [NoCall EXCEPT !.op = "status", !.pc = "done",
                          !.res = IF debug_status.active THEN "active"
                                  ELSE "inactive",
                          !.url = debug_status.url]]
    /\ UNCHANGED <<sessionVars, storedNgrokToken, envToken, running, openTunnels,
                   extBound, reqs, file, clock>>

\* ------------------------------------------------------------- log lines

\* The line break.
NL == "\n"

\* Labels a request can carry: plain ones and one with a line break in it.
Labels == {<<"a">>, <<"b">>, <<"a", NL, "b">>}

\* JSON values a request can carry as data: null and a string with a line
\* break in it.
JsonValues == {[t |-> "null", s |-> <<>>], [t |-> "str", s |-> <<"x", NL, "y">>]}

\* Request bodies: text that is not JSON, or an object whose label is absent,
\* the empty string or a label, and whose data is absent or a JSON value.
Bodies ==
    {[ok |-> FALSE, label |-> Null, data |-> Null],
     [ok |-> TRUE, label |-> Null, data |-> Null],
     [ok |-> TRUE, label |-> Null, data |-> Some([t |-> "null", s |-> <<>>])],
     [ok |-> TRUE, label |-> Some(<<>>), data |-> Null]}
    \cup {[ok |-> TRUE, label |-> Some(l), data |-> d] :
            l \in Labels, d \in {Null} \cup {Some(v) : v \in JsonValues}}

\* await req.json().catch(() => null)
reqJson(b) == IF b.ok THEN Some([label |-> b.label, data |-> b.data]) ELSE Null

\* missingLabel testing for an absent label only (body.label === undefined).
missingLabelAbsentOnly(body) == body = Null \/ body[1].label = Null

\* !body || !body.label
missingLabel(body) ==
    body = Null \/ body[1].label = Null \/ body[1].label[1] = <<>>

\* JSON.stringify of the characters of a string: quotes, backslashes and line
\* breaks are escaped.
RECURSIVE escapeChars(_)
escapeChars(s) ==
    IF s = <<>> THEN <<>>
    ELSE (CASE Head(s) = NL -> <<"\\", "n">>
            [] Head(s) = "\"" -> <<"\\", "\"">>
            [] Head(s) = "\\" -> <<"\\", "\\">>
            [] OTHER -> <<Head(s)>>) \o escapeChars(Tail(s))

\* JSON.stringify(data)
JSONstringify(v) ==
    IF v.t = "null" THEN <<"n", "u", "l", "l">>
    ELSE <<"\"">> \o escapeChars(v.s) \o <<"\"">>

\* new Date().toISOString() at tick t
toISOString(t) == <<"T", ToString(t), "Z">>

\* The line appendToLog builds (lines 132-136).
formatLine(t, label, data) ==
    IF data # Null
    THEN <<"[">> \o toISOString(t) \o <<"]", " ">> \o label
           \o <<" ", "|", " ">> \o JSONstringify(data[1]) \o <<NL>>
    ELSE <<"[">> \o toISOString(t) \o <<"]", " ">> \o label \o <<NL>>

\* s.split("\n")
RECURSIVE split(_)
split(s) ==
    IF \A i \in 1..Len(s) : s[i] # NL THEN <<s>>
    ELSE LET k == CHOOSE i \in 1..Len(s) :
                      s[i] = NL /\ \A j \in 1..(i - 1) : s[j] # NL
         IN  <<SubSeq(s, 1, k - 1)>> \o split(SubSeq(s, k + 1, Len(s)))

WhiteSpace == {" ", NL, "\t", "\r"}

\* s.trim()
RECURSIVE trim(_)
trim(s) ==
    IF s = <<>> THEN s
    ELSE IF Head(s) \in WhiteSpace THEN trim(Tail(s))
    ELSE IF s[Len(s)] \in WhiteSpace THEN trim(SubSeq(s, 1, Len(s) - 1))
    ELSE s

\* content.trim().split("\n").filter(Boolean): the entries debug_read shows.
readLines(content) == SelectSeq(split(trim(content)), LAMBDA l : l # <<>>)

\* --------------------------------------------------------- HTTP requests

NoBody == [ok |-> FALSE, label |-> Null, data |-> Null]

NoReq ==
    [pc |-> "none", method |-> "", path |-> "", body |-> NoBody,
     line |-> <<>>, existing |-> <<>>, status |-> 0]

\* A POST to the ingest endpoint.
PostReq == [NoReq EXCEPT !.method = "POST", !.path = endpoint]

nextReq ==
    IF \E r \in Reqs : reqs[r].pc = "none"
    THEN CHOOSE r \in Reqs : reqs[r].pc = "none"
                              /\ \A q \in Reqs : q < r => reqs[q].pc # "none"
    ELSE 0

\* appendToLog up to its first await (lines 132-137): the line is built from
\* the clock as it is now.
appendStart(r, b, label, data) ==
    reqs' = [reqs EXCEPT ![r] =
                [PostReq EXCEPT !.pc = "read", !.body = b,
                              !.line = formatLine(clock, label, data)]]

\* A POST to the ingest endpoint arrives at a running listener and its body
\* has been read: lines 162-167.
IngestPost(r, b) ==
    /\ r = nextReq
    /\ running # {}
    /\ LET body == reqJson(b)
       IN  IF missingLabel(body)
           THEN reqs' = [reqs EXCEPT ![r] =
                    [PostReq EXCEPT !.pc = "done", !.body = b, !.status = 400]]
           ELSE appendStart(r, b, body[1].label[1], body[1].data)
    /\ UNCHANGED <<sessionVars, storedNgrokToken, envToken, running, openTunnels,
                   extBound, calls, file, clock>>

\* config.healthEndpoint
healthEndpoint == "/health"

\* Methods and paths of the requests a client can send.
Methods == {"GET", "POST", "OPTIONS", "PUT"}

Paths == {endpoint, healthEndpoint, "/other"}

\* A request arrives at a running listener: the fetch handler, lines 155-171,
\* up to its first await of the file system.
Fetch(r, method, path, b) ==
    IF path = healthEndpoint /\ method = "GET"
    THEN /\ r = nextReq
         /\ running # {}
         /\ reqs' = [reqs EXCEPT ![r] =
                [NoReq EXCEPT !.pc = "done", !.method = method, !.path = path,
                              !.status = 200]]
         /\ UNCHANGED <<sessionVars, storedNgrokToken, envToken, running,
                        openTunnels, extBound, calls, file, clock>>
    ELSE IF path = endpoint /\ method = "POST"
    THEN IngestPost(r, b)
    ELSE /\ r = nextReq
         /\ running # {}
         /\ reqs' = [reqs EXCEPT ![r] =
                [NoReq EXCEPT !.pc = "done", !.method = method, !.path = path,
                              !.status = 404]]
         /\ UNCHANGED <<sessionVars, storedNgrokToken, envToken, running,
                        openTunnels, extBound, calls, file, clock>>

\* (await file.exists()) ? await file.text() : ""
IngestRead(r) ==
    /\ reqs[r].pc = "read"
    /\ reqs' = [reqs EXCEPT ![r] = [@ EXCEPT !.pc = "write", !.existing =
                   IF file # Null THEN file[1] ELSE <<>>]]
    /\ UNCHANGED <<sessionVars, storedNgrokToken, envToken, running, openTunnels,
                   extBound, calls, file, clock>>

\* What Bun.write(logPath, existing + line) leaves in the file.
written(existing, line) == existing \o line

\* await Bun.write(logPath, existing + line), then the 200 response.
IngestWrite(r) ==
    /\ reqs[r].pc = "write"
    /\ file' = Some(written(reqs[r].existing, reqs[r].line))
    /\ reqs' = [reqs EXCEPT ![r] = [@ EXCEPT !.pc = "done", !.status = 200,
                                              !.existing = <<>>]]
    /\ UNCHANGED <<sessionVars, storedNgrokToken, envToken, running, openTunnels,
                   extBound, calls, clock>>

\* The wall clock advances.
Tick ==
    /\ clock < MaxClock
    /\ clock' = clock + 1
    /\ UNCHANGED <<sessionVars, storedNgrokToken, envToken, running, openTunnels,
                   extBound, calls, reqs, file>>

\* -------------------------------------------------------------- log tools

\* Whether the run may make another call of a log tool.
toolCallsLeft ==
    Cardinality({c \in Calls : calls[c].op \in {"clear", "read"}}) < MaxToolCalls

\* debug_clear is called: suspended in file.exists().  The record keeps the
\* lines the file held when the call was made.
ClearCall(c) ==
    /\ c = nextCall
    /\ toolCallsLeft
    /\ calls' = [calls EXCEPT ![c] =
           [NoCall EXCEPT !.op = "clear", !.pc = "exists",
                          !.out = IF file = Null THEN <<>>
                                  ELSE SubSeq(split(file[1]), 1,
                                              Len(split(file[1])) - 1)]]
    /\ UNCHANGED <<sessionVars, storedNgrokToken, envToken, running, openTunnels,
                   extBound, reqs, file, clock>>

\* file.exists() answers: the call goes on to Bun.write(LOG_PATH, ""), or
\* returns "Debug log does not exist yet".
ClearExistsDone(c) ==
    /\ calls[c].op = "clear" /\ calls[c].pc = "exists"
    /\ calls' = [calls EXCEPT ![c] =
           IF file # Null THEN [@ EXCEPT !.pc = "write"]
           ELSE [@ EXCEPT !.pc = "done", !.res = "noexist"]]
    /\ UNCHANGED <<sessionVars, storedNgrokToken, envToken, running, openTunnels,
                   extBound, reqs, file, clock>>

\* ClearWriteDone removing the file instead of truncating it.
ClearWriteDeleting(c) ==
    /\ calls[c].op = "clear" /\ calls[c].pc = "write"
    /\ file' = Null
    /\ calls' = [calls EXCEPT ![c] = [@ EXCEPT !.pc = "done", !.res = "cleared"]]
    /\ UNCHANGED <<sessionVars, storedNgrokToken, envToken, running, openTunnels,
                   extBound, reqs, clock>>

\* Bun.write(LOG_PATH, "") completes: "Debug log cleared".
ClearWriteDone(c) ==
    /\ calls[c].op = "clear" /\ calls[c].pc = "write"
    /\ file' = Some(<<>>)
    /\ calls' = [calls EXCEPT ![c] = [@ EXCEPT !.pc = "done", !.res = "cleared"]]
    /\ UNCHANGED <<sessionVars, storedNgrokToken, envToken, running, openTunnels,
                   extBound, reqs, clock>>

\* Values of args.tail: absent, zero, negative, and counts below and above
\* the number of lines a log holds here.
TailArgs == {Null} \cup {Some(n) : n \in {-1, 0, 2, 5}}

\* lines.slice(-n) for n > 0
sliceLast(lines, n) ==
    IF n >= Len(lines) THEN lines
    ELSE SubSeq(lines, Len(lines) - n + 1, Len(lines))

\* args.tail && args.tail > 0 ? lines.slice(-args.tail) : lines
tailOutput(lines, tail) ==
    IF tail # Null /\ tail[1] # 0 /\ tail[1] > 0 THEN sliceLast(lines, tail[1])
    ELSE lines

\* debug_read is called with args.tail = tail: suspended in file.exists().
ReadCall(c, tail) ==
    /\ c = nextCall
    /\ toolCallsLeft
    /\ calls' = [calls EXCEPT ![c] =
           [NoCall EXCEPT !.op = "read", !.pc = "exists", !.tail = tail]]
    /\ UNCHANGED <<sessionVars, storedNgrokToken, envToken, running, openTunnels,
                   extBound, reqs, file, clock>>

\* file.exists() answers: the call goes on to file.text(), or returns
\* "No debug log yet".
ReadExistsDone(c) ==
    /\ calls[c].op = "read" /\ calls[c].pc = "exists"
    /\ calls' = [calls EXCEPT ![c] =
           IF file # Null THEN [@ EXCEPT !.pc = "text"]
           ELSE [@ EXCEPT !.pc = "done", !.res = "nolog"]]
    /\ UNCHANGED <<sessionVars, storedNgrokToken, envToken, running, openTunnels,
                   extBound, reqs, file, clock>>

\* file.text() answers with the content as it is now: lines 380-398.
ReadTextDone(c) ==
    /\ calls[c].op = "read" /\ calls[c].pc = "text"
    /\ LET lines == readLines(file[1])
       IN  calls' = [calls EXCEPT ![c] =
               IF Len(lines) = 0
               THEN [@ EXCEPT !.pc = "done", !.res = "empty"]
               ELSE [@ EXCEPT !.pc = "done", !.res = "entries",
                              !.out = tailOutput(lines, calls[c].tail)]]
    /\ UNCHANGED <<sessionVars, storedNgrokToken, envToken, running, openTunnels,
                   extBound, reqs, file, clock>>

\* --------------------------------------------------------- specification

\* The log file outlives the process: it is absent, or holds what an earlier
\* run appended.
InitFiles == {Null, Some(formatLine(0, <<"o">>, Null))}

Init ==
    /\ server = Null
    /\ tunnel = Null
    /\ debugModeActive = FALSE
    /\ activeDebugUrl = Null
    /\ storedNgrokToken \in {Null, Some("stored")}
    /\ envToken \in {Null, Some("env")}
    /\ running = {}
    /\ openTunnels = {}
    /\ extBound \in {{}, {1}}
    /\ calls = [c \in Calls |-> NoCall]
    /\ reqs = [r \in Reqs |-> NoReq]
    /\ file \in InitFiles
    /\ clock = 0

\* The debug session: any interleaving of debug_start and debug_stop calls.
Next ==
    \/ \E c \in Calls, p \in PortArgs : StartCall(c, p)
    \/ \E c \in Calls : StartProbeDone(c)
    \/ \E c \in Calls, o \in ForwardOutcomes : StartForwardDone(c, o)
    \/ \E c \in Calls : StopCall(c)
    \/ \E c \in Calls, closed \in BOOLEAN : StopCloseDone(c, closed)

Spec == Init /\ [][Next]_vars

\* The debug session with its status tool: any interleaving of debug_start,
\* debug_stop and debug_status calls.
StatusNext ==
    \/ Next
    \/ \E c \in Calls : StatusCall(c)

StatusSpec == Init /\ [][StatusNext]_vars

\* The state after debug_start({port: 1}) has completed with no token
\* configured, no log file yet, and port 1 free.
LogInit ==
    LET lsn == [id |-> 1, port |-> 1]
        url == buildDebugUrl(localBase(1))
    IN  /\ server = Some(lsn)
        /\ tunnel = Null
        /\ debugModeActive = TRUE
        /\ activeDebugUrl = Some(url)
        /\ storedNgrokToken = Null
        /\ envToken = Null
        /\ running = {lsn}
        /\ openTunnels = {}
        /\ extBound = {}
        /\ calls = [c \in Calls |->
                      IF c = 1
                      THEN [NoCall EXCEPT !.op = "start", !.pc = "done",
                                          !.res = "started", !.port = Some(1),
                                          !.lsn = Some(lsn), !.url = Some(url)]
                      ELSE NoCall]
        /\ reqs = [r \in Reqs |-> NoReq]
        /\ file = Null
        /\ clock = 0

\* The log store behind a running debug server: any interleaving of ingest
\* requests and clock ticks.
LogNext ==
    \/ \E r \in Reqs, b \in Bodies : IngestPost(r, b)
    \/ \E r \in Reqs : IngestRead(r)
    \/ \E r \in Reqs : IngestWrite(r)
    \/ Tick

LogSpec == LogInit /\ [][LogNext]_vars

\* Bodies of the requests sent with any method to any path.
HttpBodies ==
    {[ok |-> FALSE, label |-> Null, data |-> Null],
     [ok |-> TRUE, label |-> Some(<<"a">>), data |-> Null],
     [ok |-> TRUE, label |-> Some(<<"b">>),
      data |-> Some([t |-> "null", s |-> <<>>])]}

\* The debug server behind a running session: requests of any method to any
\* path, in any interleaving.
HttpNext ==
    \/ \E r \in Reqs, m \in Methods, p \in Paths, b \in HttpBodies :
          Fetch(r, m, p, b)
    \/ \E r \in Reqs : IngestRead(r)
    \/ \E r \in Reqs : IngestWrite(r)

HttpSpec == LogInit /\ [][HttpNext]_vars

\* Logs left by earlier runs: none, or three records, the second with data
\* and the last with a label that ends in a space.
ToolFiles ==
    {Null,
     Some(formatLine(0, <<"A">>, Null)
          \o formatLine(0, <<"B">>, Some([t |-> "null", s |-> <<>>]))
          \o formatLine(0, <<"C", " ">>, Null))}

\* Bodies of the ingest requests made while the log tools are used.
ToolBodies == {[ok |-> TRUE, label |-> Some(<<"a">>), data |-> Null]}

\* The session is Inactive (nothing was started), or Active as after
\* debug_start({port: 1}) with no token; the log is one of ToolFiles.
ToolInit ==
    LET lsn == [id |-> 1, port |-> 1]
        url == buildDebugUrl(localBase(1))
    IN  /\ \E on \in BOOLEAN :
              /\ server = IF on THEN Some(lsn) ELSE Null
              /\ debugModeActive = on
              /\ activeDebugUrl = IF on THEN Some(url) ELSE Null
              /\ running = IF on THEN {lsn} ELSE {}
              /\ calls = [c \in Calls |->
                            IF on /\ c = 1
                            THEN [NoCall EXCEPT !.op = "start", !.pc = "done",
                                                !.res = "started",
                                                !.port = Some(1),
                                                !.lsn = Some(lsn),
                                                !.url = Some(url)]
                            ELSE NoCall]
        /\ tunnel = Null
        /\ storedNgrokToken = Null
        /\ envToken = Null
        /\ openTunnels = {}
        /\ extBound = {}
        /\ reqs = [r \in Reqs |-> NoReq]
        /\ file \in ToolFiles
        /\ clock = 0

\* The log tools and the log store: any interleaving of debug_clear and
\* debug_read calls with ingest requests.
ToolNext ==
    \/ \E r \in 1..MaxToolReqs, b \in ToolBodies : IngestPost(r, b)
    \/ \E r \in Reqs : IngestRead(r)
    \/ \E r \in Reqs : IngestWrite(r)
    \/ \E c \in Calls : ClearCall(c)
    \/ \E c \in Calls : ClearExistsDone(c)
    \/ \E c \in Calls : ClearWriteDone(c)
    \/ \E c \in Calls, t \in TailArgs : ReadCall(c, t)
    \/ \E c \in Calls : ReadExistsDone(c)
    \/ \E c \in Calls : ReadTextDone(c)

ToolSpec == ToolInit /\ [][ToolNext]_vars

\* ---------------------------------------------------------------- claims

\* The entries debug_read shows for the log file as it is.
fileLines == IF file = Null THEN <<>> ELSE readLines(file[1])

\* The newline-terminated lines of a file content.
rawLines(content) ==
    LET parts == split(content) IN SubSeq(parts, 1, Len(parts) - 1)

\* Whether sub occurs in s.
contains(s, sub) ==
    \E i \in 0..(Len(s) - Len(sub)) : SubSeq(s, i + 1, i + Len(sub)) = sub

\* Whether a label has no line break in it.
plain(l) == \A i \in 1..Len(l) : l[i] # NL

answered == {r \in Reqs : reqs[r].status = 200}

inFlight == {r \in Reqs : reqs[r].pc \in {"read", "write"}}

labelOf(r) == reqs[r].body.label[1]

\* C1: no lost updates.  When ingest requests with distinct labels (none with
\* a line break in it) have been handled in any interleaving and all have been
\* answered 200, the log holds one line per request and every label is in
\* exactly one line.
C1_NoLostUpdates ==
    ( /\ inFlight = {}
      /\ \A r \in answered : plain(labelOf(r))
      /\ \A r, q \in answered : r # q => labelOf(r) # labelOf(q) )
    => /\ Len(fileLines) = Cardinality(answered)
       /\ \A r \in answered :
            Cardinality({i \in 1..Len(fileLines) :
                            contains(fileLines[i], labelOf(r))}) = 1

\* C2: at most one session.  In every reachable state at most one listener
\* is running and at most one forwarding session is open.
C2_AtMostOneSession ==
    /\ Cardinality(running) <= 1
    /\ Cardinality(openTunnels) <= 1

made == {c \in Calls : calls[c].op # "none"}

started == {c \in Calls : calls[c].op = "start" /\ calls[c].res = "started"}

\* Call c is being made in this step.
isCalled(c) == calls[c].op = "none" /\ calls'[c].op # "none"

\* Call c returns in this step.
returns(c) == calls[c].pc # "done" /\ calls'[c].pc = "done"

\* The session is Active through start d alone: d has completed, it is the
\* only start that has, every other call made so far has returned too, and
\* debug_stop has not been called.
activeBy(d) ==
    /\ started = {d}
    /\ \A c \in made : calls[c].pc = "done" /\ calls[c].op = "start"

\* C3: start is idempotent.  A debug_start called while the session is Active
\* returns the URL that the start which activated it returned, creates no
\* listener, opens no tunnel and leaves the session state unchanged.
C3_StartIdempotent ==
    [][\A c, d \in Calls :
          (activeBy(d) /\ isCalled(c) /\ calls'[c].op = "start")
          => /\ calls'[c].res = "already"
             /\ calls'[c].url = calls[d].url
             /\ UNCHANGED <<sessionVars, running, openTunnels>>]_vars

\* A listener is running and is the one the session records, with the flags set.
FullyActive ==
    /\ server # Null /\ server[1] \in running
    /\ debugModeActive /\ activeDebugUrl # Null

\* Nothing is running, open or set.
FullyInactive ==
    /\ server = Null /\ running = {}
    /\ tunnel = Null /\ openTunnels = {}
    /\ ~debugModeActive /\ activeDebugUrl = Null

\* C4: start and stop are critical sections.  Once one debug_start (which
\* opened its tunnel and returned its URL) and one debug_stop (which tore the
\* session down, its close not failing) have both returned, in whichever
\* order their steps ran, the session is fully Active or fully Inactive.
C4_StartStopAtomic ==
    \A c, d \in Calls :
        ( /\ made = {c, d}
          /\ calls[c].op = "start" /\ calls[c].pc = "done"
          /\ calls[c].res = "started" /\ calls[c].fwd = "url"
          /\ calls[d].op = "stop" /\ calls[d].pc = "done"
          /\ calls[d].res = "stopped" /\ ~calls[d].closeErr )
        => (FullyActive \/ FullyInactive)

\* C5: tunnel failure is non-fatal.  A debug_start whose call of the tunnel
\* service raised has still returned successfully, with the local URL of its
\* port and no tunnel recorded for it.
C5_TunnelFailureNonFatal ==
    \A c \in Calls :
        (calls[c].op = "start" /\ calls[c].fwd = "throw")
        => /\ calls[c].res = "started"
           /\ calls[c].tun = Null
           /\ calls[c].url = Some(buildDebugUrl(localBase(calls[c].lsn[1].port)))

\* C6: stop tears everything down.  When a debug_stop that was called while
\* debug_status reported active returns, the tunnel it found (if any) has
\* been closed unless the close raised, the listener it found is no longer
\* running, server and tunnel are null, the flags are cleared and debug_status
\* reports not active; the same when the close raised.
C6_StopTearsDown ==
    [][\A c \in Calls :
          (returns(c) /\ calls'[c].op = "stop" /\ calls'[c].seen)
          => /\ calls'[c].res = "stopped"
             /\ server' = Null /\ tunnel' = Null
             /\ ~debugModeActive' /\ activeDebugUrl' = Null
             /\ ~debug_status'.active
             /\ calls'[c].lsn[1] \notin running'
             /\ (calls'[c].tun # Null /\ ~calls'[c].closeErr)
                => calls'[c].tun[1] \notin openTunnels']_vars

\* Call c, a debug_stop, takes a step: it is called, or its close settles.
stopStep(c) ==
    \/ isCalled(c) /\ calls'[c].op = "stop"
    \/ calls[c].op = "stop" /\ calls[c].pc = "closing" /\ returns(c)

\* C7: stop preserves the log.  No step of debug_stop changes the log file,
\* and debug_read shows the same entries after the step as before it.
C7_StopPreservesLog ==
    [][\A c \in Calls :
          stopStep(c) => file' = file /\ fileLines' = fileLines]_vars

\* A debug_stop has torn a session down and the log still has its entry.
C7_Witness ==
    \E c \in Calls :
        /\ calls[c].op = "stop" /\ calls[c].res = "stopped"
        /\ Len(fileLines) = 1

\* C8: stop is idempotent.  A debug_stop called while no session is recorded
\* (none was started, or it was stopped) reports "not running" at once and
\* changes neither the session state, the listeners, the tunnels nor the log.
C8_StopIdempotent ==
    [][\A c \in Calls :
          (isCalled(c) /\ calls'[c].op = "stop" /\ server = Null)
          => /\ calls'[c].pc = "done" /\ calls'[c].res = "notrunning"
             /\ UNCHANGED <<sessionVars, running, openTunnels, file>>]_vars

\* A second debug_stop in a row has reported "not running" after the first
\* tore the session down.
C8_Witness ==
    \E c, d \in Calls :
        /\ d = c + 1
        /\ calls[c].op = "stop" /\ calls[c].res = "stopped"
        /\ calls[d].op = "stop" /\ calls[d].res = "notrunning"
        /\ FullyInactive

\* A body that is not JSON, or whose label is absent or the empty string.
malformed(b) == ~b.ok \/ b.label = Null \/ b.label = Some(<<>>)

\* Request r arrives in this step.
arrives(r) == reqs[r].pc = "none" /\ reqs'[r].pc # "none"

\* C9: malformed ingest requests never reach the log.  A POST whose body is
\* malformed is answered 400 as it arrives, appendToLog is not started for it,
\* the log file stays as it is and the listeners keep running; a request
\* answered 400 never writes.
C9_MalformedRejected ==
    [][\A r \in Reqs :
          /\ (arrives(r) /\ malformed(reqs'[r].body))
             => /\ reqs'[r].pc = "done" /\ reqs'[r].status = 400
                /\ reqs'[r].line = <<>>
                /\ file' = file /\ running' = running
          /\ reqs[r].status = 400 => reqs'[r] = reqs[r]]_vars

\* An empty label was answered 400 and a later request was served and logged.
C9_Witness ==
    \E r, q \in Reqs :
        /\ r < q
        /\ reqs[r].status = 400 /\ reqs[r].body.label = Some(<<>>)
        /\ reqs[q].status = 200
        /\ Len(fileLines) = 1

\* The line the log format gives a record: "[<timestamp>] <label>", followed
\* by " | <JSON of data>" when data was supplied.
isRecordLine(l, b) ==
    \E t \in 0..MaxClock :
        l = <<"[">> \o toISOString(t) \o <<"]", " ">> \o b.label[1]
              \o (IF b.data = Null THEN <<>>
                  ELSE <<" ", "|", " ">> \o JSONstringify(b.data[1]))

\* C10: one valid POST, one line.  When a request with a non-empty label
\* that no other request overlaps completes its write, it is answered 200 and
\* the file is its earlier lines followed by exactly one line, the record.
C10_OnePostOneLine ==
    [][\A r \in Reqs :
          ( /\ reqs[r].pc = "write" /\ reqs'[r].pc = "done"
            /\ \A q \in Reqs : q # r => reqs[q].pc \in {"none", "done"}
            /\ reqs[r].existing = (IF file = Null THEN <<>> ELSE file[1]) )
          => LET old == rawLines(reqs[r].existing)
                 new == rawLines(file'[1])
             IN  /\ reqs'[r].status = 200
                 /\ Len(new) = Len(old) + 1
                 /\ SubSeq(new, 1, Len(old)) = old
                 /\ isRecordLine(new[Len(new)], reqs[r].body)]_vars

\* An ingest request completes its write in this step.
ingestWrites == \E r \in Reqs : reqs[r].pc = "write" /\ reqs'[r].pc = "done"

\* Call c, a debug_clear, completes its write in this step.
clearWrites(c) ==
    calls[c].op = "clear" /\ calls[c].pc = "write" /\ calls'[c].pc = "done"

\* C11: clear empties the log.  When debug_clear completes its write the file
\* exists and is empty, and it stays so until an ingest request writes; a
\* debug_read that reads the file in that state returns no entries ("Debug
\* log is empty").  When debug_clear finds no file it reports "does not
\* exist" and does not create one.
C11_ClearEmpties ==
    [][/\ \A c \in Calls :
            /\ clearWrites(c)
               => /\ calls'[c].res = "cleared"
                  /\ file' = Some(<<>>) /\ fileLines' = <<>>
            /\ (calls[c].op = "clear" /\ calls[c].pc = "exists"
                  /\ calls'[c] # calls[c] /\ file = Null)
               => /\ calls'[c].pc = "done" /\ calls'[c].res = "noexist"
                  /\ file' = Null
            /\ (calls[c].op = "read" /\ returns(c) /\ file = Some(<<>>))
               => /\ calls'[c].res = "empty" /\ calls'[c].out = <<>>
                  /\ file' = file
       /\ file' # file => (ingestWrites \/ \E c \in Calls : clearWrites(c))]_vars

\* A debug_clear has emptied a log of three records, a debug_read called
\* after it has found the log empty, and no ingest request was made.
C11_Witness ==
    \E c, d \in Calls :
        /\ c < d
        /\ calls[c].op = "clear" /\ calls[c].res = "cleared"
        /\ Len(calls[c].out) = 3
        /\ calls[d].op = "read" /\ calls[d].res = "empty"
        /\ file = Some(<<>>)
        /\ \A r \in Reqs : reqs[r].pc = "none"

\* The non-empty lines of a file content, in file order.
nonEmptyLines(content) == SelectSeq(split(content), LAMBDA l : l # <<>>)

\* The smaller of two numbers.
min(a, b) == IF a <= b THEN a ELSE b

\* C12: tail view.  When debug_read reads a log with non-empty lines l1..ln,
\* n >= 1, it returns the last min(tail, n) of them in file order when
\* tail > 0 and all n of them when tail is absent or tail <= 0, whatever the
\* session state, and no step of debug_read changes the log file.
C12_TailView ==
    [][\A c \in Calls :
          /\ (calls[c].op = "read" /\ calls[c].pc = "text" /\ returns(c))
             => LET lines == nonEmptyLines(file[1])
                    n == Len(lines)
                    tail == calls[c].tail
                IN  n >= 1
                    => /\ calls'[c].res = "entries"
                       /\ calls'[c].out =
                            IF tail # Null /\ tail[1] > 0
                            THEN SubSeq(lines, n - min(tail[1], n) + 1, n)
                            ELSE lines
          /\ (calls'[c].op = "read" /\ calls'[c] # calls[c]) => file' = file]_vars

\* Start d, called from Inactive, has completed, it is the only start that
\* ran the start sequence to its end, every call made so far has returned and
\* none of them is a debug_stop.
activeSince(d) ==
    /\ started = {d}
    /\ \A c \in made : calls[c].pc = "done" /\ calls[c].op # "stop"

\* The URL the claim gives a completed start: the tunnel URL plus endpoint
\* when the start established a tunnel, else the local URL of the port its
\* listener is bound to.
effectiveUrl(d) ==
    IF calls[d].tun # Null THEN buildDebugUrl(tunnelBase(calls[d].tun[1]))
    ELSE buildDebugUrl(localBase(calls[d].lsn[1].port))

\* C13: status is a pure read.  A debug_status call changes neither the
\* session state, the listeners, the tunnels nor the log file; called after a
\* debug_start from Inactive has completed and before any stop, it reports
\* active with the URL that start returned, which is the tunnel URL plus
\* endpoint when a tunnel was established and the local URL of the bound
\* port otherwise.
C13_StatusPureRead ==
    [][\A c \in Calls :
          (isCalled(c) /\ calls'[c].op = "status")
          => /\ UNCHANGED <<sessionVars, running, openTunnels, file>>
             /\ \A d \in Calls :
                  activeSince(d)
                  => /\ calls'[c].res = "active"
                     /\ calls'[c].url = calls[d].url
                     /\ calls'[c].url = Some(effectiveUrl(d))]_vars

\* Neither process.env.NGROK_AUTHTOKEN nor a stored token is set.
noToken == envToken = Null /\ storedNgrokToken = Null

\* Call c, a debug_start that found no server, returns in this step, and no
\* listener was running while it did.
startsFromInactive(c) ==
    /\ server = Null /\ running = {}
    /\ returns(c) /\ calls'[c].op = "start"

\* C14: no credential means no tunnel and no error.  With no token set, no
\* debug_start ever waits for the tunnel service, no forwarding session is
\* opened and tunnel stays null; a debug_start from Inactive succeeds and
\* returns the local URL of the port its listener is bound to, and a
\* debug_status that follows it reports that URL.
C14_NoTokenNoTunnel ==
    [][noToken
       => /\ tunnel' = Null /\ openTunnels' = {}
          /\ \A c \in Calls :
               /\ calls'[c].pc # "forward" /\ calls'[c].fwd = "none"
               /\ startsFromInactive(c)
                  => /\ calls'[c].res = "started"
                     /\ calls'[c].url =
                          Some(buildDebugUrl(localBase(calls'[c].lsn[1].port)))
               /\ (isCalled(c) /\ calls'[c].op = "status")
                  => \A d \in Calls :
                       activeSince(d)
                       => /\ calls'[c].res = "active"
                          /\ calls'[c].url =
                               Some(buildDebugUrl(localBase(calls[d].lsn[1].port)))]_vars

\* C15: port allocation.  When the probe of the preferred port fails,
\* findAvailablePort returns the preferred port unchanged: the start goes on
\* with it, and ends in an error only if binding it fails.  When the probe
\* connects, or no port is preferred, it returns a free port assigned by the
\* OS: the start goes on with that port, and ends in an error only if the OS
\* has no free port to assign, never because the preferred port was busy.
C15_PortAllocation ==
    [][\A c \in Calls :
          /\ (calls[c].op = "start" /\ calls[c].pc = "probe"
                /\ calls'[c].pc # "probe")
             => LET preferred == calls[c].port[1]
                IN  IF calls'[c].seen
                    THEN /\ calls'[c].res = "error" => Ports \ BoundPorts = {}
                         /\ calls'[c].res # "error"
                            => calls'[c].port[1] \in Ports \ BoundPorts
                    ELSE /\ calls'[c].res = "error" => servePorts(preferred) = {}
                         /\ calls'[c].res # "error"
                            => calls'[c].port = Some(preferred)
          /\ (isCalled(c) /\ calls'[c].op = "start" /\ server = Null
                /\ calls'[c].pc # "probe")
             => /\ calls'[c].res = "error" => Ports \ BoundPorts = {}
                /\ calls'[c].res # "error"
                   => calls'[c].port[1] \in Ports \ BoundPorts]_vars

\* Port 1 is held by another process: one debug_start whose probe of its
\* preferred port connected has started on port 2, and one whose probe of
\* its preferred port failed (the preference was port 0, the only one no
\* assignment returns) has gone on with the port it preferred.
C15_Witness ==
    \E c, d \in Calls :
        /\ extBound = {1}
        /\ calls[c].op = "start" /\ calls[c].res = "started"
        /\ calls[c].seen /\ calls[c].lsn = Some([id |-> c, port |-> 2])
        /\ calls[d].op = "start" /\ calls[d].res = "started"
        /\ ~calls[d].seen /\ calls[d].port = Some(0)

\* C16: CORS pre-flight.  Every OPTIONS request, on any path, is answered
\* 204; every request that is neither an OPTIONS request, GET health nor POST
\* ingest is answered 404 as it arrives, and neither then nor later changes
\* the log file.
C16_Preflight ==
    [][\A r \in Reqs :
          /\ (arrives(r) /\ reqs'[r].method = "OPTIONS")
             => reqs'[r].status = 204
          /\ ( /\ arrives(r)
               /\ reqs'[r].method # "OPTIONS"
               /\ ~(reqs'[r].method = "GET" /\ reqs'[r].path = healthEndpoint)
               /\ ~(reqs'[r].method = "POST" /\ reqs'[r].path = endpoint) )
             => /\ reqs'[r].pc = "done" /\ reqs'[r].status = 404
                /\ file' = file
          /\ reqs[r].status = 404 => reqs'[r] = reqs[r]]_vars

\* Whether a line of the file begins a record: "[<timestamp>] ".
beginsRecord(l) ==
    /\ Len(l) >= 6
    /\ l[1] = "[" /\ l[2] = "T" /\ l[4] = "Z" /\ l[5] = "]"
    /\ \E t \in 0..MaxClock : l[3] = ToString(t)

\* The tick in the timestamp of a line that begins a record.
stampOf(l) == CHOOSE t \in 0..MaxClock : l[3] = ToString(t)

\* The timestamps of the records in the file, in file order.
fileStamps ==
    LET ls == IF file = Null THEN <<>> ELSE rawLines(file[1])
        recs == SelectSeq(ls, beginsRecord)
    IN  [i \in 1..Len(recs) |-> stampOf(recs[i])]

\* C17: file order is chronological order.  In every reachable state the
\* timestamps of the records in the log file, taken in file order, never
\* decrease.
C17_FileOrderChronological ==
    \A i, j \in 1..Len(fileStamps) : i < j => fileStamps[i] <= fileStamps[j]

\* Whether a debug_start called now would answer "already running".
alreadyRunning == server # Null

\* C18: status and start agree on whether a session is running.  In every
\* reachable state debug_status reports active exactly when a debug_start
\* would answer "already running": debugModeActive is true exactly when
\* server is non-null, and activeDebugUrl is non-null exactly when
\* debugModeActive is true.
C18_StatusStartAgree ==
    /\ debug_status.active <=> alreadyRunning
    /\ debugModeActive <=> server # Null
    /\ activeDebugUrl # Null <=> debugModeActive

\* Call c, a debug_start, ends in an error in this step, while no other call
\* is in progress and no listener but its own is running.
startFails(c) ==
    /\ returns(c) /\ calls'[c].op = "start" /\ calls'[c].res = "error"
    /\ \A d \in made \ {c} : calls[d].pc = "done"
    /\ \A l \in running : calls[c].lsn = Some(l)

\* C19: a failed start leaves the session Inactive.  When a debug_start from
\* Inactive ends in an error, no listener is left running, server and tunnel
\* are null and debugModeActive is false; a debug_start called next runs the
\* start sequence instead of answering "already running".
C19_FailedStartInactive ==
    [][\A c \in Calls :
          /\ startFails(c)
             => /\ running' = {}
                /\ server' = Null /\ tunnel' = Null
                /\ ~debugModeActive'
          /\ \A d \in Calls :
               ( /\ isCalled(c) /\ calls'[c].op = "start"
                 /\ d + 1 = c
                 /\ calls[d].op = "start" /\ calls[d].res = "error"
                 /\ \A e \in made : calls[e].pc = "done" /\ calls[e].op = "start"
                                      /\ calls[e].res = "error" )
               => calls'[c].res # "already"]_vars

\* The lines the file holds now.
linesNow == IF file = Null THEN {} ELSE
              {rawLines(file[1])[i] : i \in 1..Len(rawLines(file[1]))}

\* The lines that requests of this run have built, without the line break.
linesOfRequests ==
    {SubSeq(reqs[r].line, 1, Len(reqs[r].line) - 1) :
        r \in {q \in Reqs : reqs[q].line # <<>>}}

\* C20: cleared records do not come back.  Once a debug_clear has completed,
\* no line that was in the log file when it was called is in the file again
\* (lines that a request of this run writes anew set aside).
C20_ClearedStayCleared ==
    \A c \in Calls :
        (calls[c].op = "clear" /\ calls[c].res = "cleared")
        => \A i \in 1..Len(calls[c].out) :
             calls[c].out[i] \notin linesOfRequests
             => calls[c].out[i] \notin linesNow

====
